---- MODULE Spec2Model ----
(***************************************************************************)
(* The contact endpoint (app/api/contact route handlers) and the contact   *)
(* form of the portfolio page.                                             *)
(*                                                                         *)
(* A request body is a sequence of JSON tokens; req.json() is a parser     *)
(* over that sequence.  A parsed JSON value is a tagged record.  A handler *)
(* outcome is either an HTTP response or an exception that escapes the     *)
(* handler.                                                                *)
(***************************************************************************)
EXTENDS Integers, Sequences, FiniteSets, TLC

(***************************************************************************)
(* JavaScript values that JSON.parse can produce, plus undefined.          *)
(***************************************************************************)
JUndefined == [t |-> "undefined"]
JNull == [t |-> "null"]
JBool(b) == [t |-> "bool", b |-> b]
JNum(n) == [t |-> "num", n |-> n]
JStr(s) == [t |-> "str", s |-> s]
JArr(a) == [t |-> "arr", a |-> a]
JObj(o) == [t |-> "obj", o |-> o]

\* The object literal {} : a record with no own property.
EmptyObject == JObj([k \in {} |-> JNull])

(***************************************************************************)
(* JSON text, as tokens.                                                   *)
(***************************************************************************)
Tok(k, x) == [k |-> k, x |-> x]
LBRACE == Tok("punct", "{")
RBRACE == Tok("punct", "}")
LBRACK == Tok("punct", "[")
RBRACK == Tok("punct", "]")
COLON == Tok("punct", ":")
COMMA == Tok("punct", ",")
EOF == Tok("eof", "")
TLit(x) == Tok("literal", x)
TNum(x) == Tok("number", x)
TStr(s) == Tok("string", s)

\* The number a JSON number lexeme denotes (-0 is the same number as 0 to
\* every comparison the handlers make).
NumberValue(x) ==
  CASE x = "0" -> 0
    [] x = "-0" -> 0
    [] x = "1" -> 1
    [] OTHER -> 42

At(toks, i) == IF i >= 1 /\ i <= Len(toks) THEN toks[i] ELSE EOF

ParseFail == [ok |-> FALSE]
ParseOk(v, next) == [ok |-> TRUE, val |-> v, next |-> next]

\* obj with property key set to v (a repeated key keeps the last value).
SetProperty(o, key, v) ==
  [k \in (DOMAIN o) \cup {key} |-> IF k = key THEN v ELSE o[k]]

RECURSIVE ParseValue(_, _)
RECURSIVE ParseMembers(_, _, _)
RECURSIVE ParseElements(_, _, _)

\* One JSON value starting at token i.
ParseValue(toks, i) ==
  LET tk == At(toks, i) IN
  CASE tk.k = "literal" ->
         ParseOk(IF tk.x = "null" THEN JNull ELSE JBool(tk.x = "true"), i + 1)
    [] tk.k = "number" -> ParseOk(JNum(NumberValue(tk.x)), i + 1)
    [] tk.k = "string" -> ParseOk(JStr(tk.x), i + 1)
    [] tk = LBRACE ->
         IF At(toks, i + 1) = RBRACE
         THEN ParseOk(EmptyObject, i + 2)
         ELSE ParseMembers(toks, i + 1, EmptyObject.o)
    [] tk = LBRACK ->
         IF At(toks, i + 1) = RBRACK
         THEN ParseOk(JArr(<< >>), i + 2)
         ELSE ParseElements(toks, i + 1, << >>)
    [] OTHER -> ParseFail

\* string : value { , string : value } "}"   with the members so far in acc.
ParseMembers(toks, i, acc) ==
  LET key == At(toks, i) IN
  IF key.k # "string" \/ At(toks, i + 1) # COLON
  THEN ParseFail
  ELSE LET r == ParseValue(toks, i + 2) IN
       IF ~r.ok
       THEN ParseFail
       ELSE LET o == SetProperty(acc, key.x, r.val) IN
            CASE At(toks, r.next) = RBRACE -> ParseOk(JObj(o), r.next + 1)
              [] At(toks, r.next) = COMMA -> ParseMembers(toks, r.next + 1, o)
              [] OTHER -> ParseFail

\* value { , value } "]"   with the elements so far in acc.
ParseElements(toks, i, acc) ==
  LET r == ParseValue(toks, i) IN
  IF ~r.ok
  THEN ParseFail
  ELSE CASE At(toks, r.next) = RBRACK -> ParseOk(JArr(Append(acc, r.val)), r.next + 1)
         [] At(toks, r.next) = COMMA -> ParseElements(toks, r.next + 1, Append(acc, r.val))
         [] OTHER -> ParseFail

\* req.json(): the body read and parsed as one JSON text.  The promise is
\* fulfilled with the value, or rejected with a SyntaxError.
ReqJson(raw) ==
  LET r == ParseValue(raw, 1) IN
  IF r.ok /\ r.next = Len(raw) + 1
  THEN [settled |-> "fulfilled", value |-> r.val]
  ELSE [settled |-> "rejected", reason |-> "SyntaxError"]

(***************************************************************************)
(* JSON.stringify, as the contact form uses it to build the request body.  *)
(***************************************************************************)
NumberLexeme(n) ==
  CASE n = 0 -> "0"
    [] n = 1 -> "1"
    [] OTHER -> "42"

\* The order in which JSON.stringify visits the properties this model uses
\* (insertion order of the literal at handleSubmit, then any other key).
KeyOrder == <<"name", "email", "message", "phone">>

RECURSIVE Stringify(_)
RECURSIVE StringifyMembers(_, _, _)
RECURSIVE StringifyElements(_, _)

Stringify(v) ==
  CASE v.t = "null" -> <<TLit("null")>>
    [] v.t = "bool" -> <<TLit(IF v.b THEN "true" ELSE "false")>>
    [] v.t = "num" -> <<TNum(NumberLexeme(v.n))>>
    [] v.t = "str" -> <<TStr(v.s)>>
    [] v.t = "arr" -> <<LBRACK>> \o StringifyElements(v.a, 1) \o <<RBRACK>>
    [] v.t = "obj" -> <<LBRACE>> \o StringifyMembers(v.o, 1, TRUE) \o <<RBRACE>>

\* The members of o from position i of KeyOrder on; a property whose value
\* is undefined is left out.
StringifyMembers(o, i, first) ==
  IF i > Len(KeyOrder)
  THEN << >>
  ELSE LET key == KeyOrder[i] IN
       IF key \notin DOMAIN o \/ o[key].t = "undefined"
       THEN StringifyMembers(o, i + 1, first)
       ELSE (IF first THEN << >> ELSE <<COMMA>>)
            \o <<TStr(key), COLON>> \o Stringify(o[key])
            \o StringifyMembers(o, i + 1, FALSE)

StringifyElements(a, i) ==
  IF i > Len(a)
  THEN << >>
  ELSE (IF i = 1 THEN << >> ELSE <<COMMA>>)
       \o Stringify(IF a[i].t = "undefined" THEN JNull ELSE a[i])
       \o StringifyElements(a, i + 1)

(***************************************************************************)
(* The language operations the handlers use.                               *)
(***************************************************************************)
\* ToBoolean gone wrong: the string "0" counts as false.
ToBooleanZeroString(v) ==
  CASE v.t = "undefined" -> FALSE
    [] v.t = "null" -> FALSE
    [] v.t = "bool" -> v.b
    [] v.t = "num" -> v.n # 0
    [] v.t = "str" -> v.s \notin {"", "0"}
    [] OTHER -> TRUE

\* ToBoolean gone wrong: an empty array counts as false.
ToBooleanEmptyArray(v) ==
  CASE v.t = "undefined" -> FALSE
    [] v.t = "null" -> FALSE
    [] v.t = "bool" -> v.b
    [] v.t = "num" -> v.n # 0
    [] v.t = "str" -> v.s # ""
    [] v.t = "arr" -> Len(v.a) > 0
    [] OTHER -> TRUE

\* ToBoolean, as the ! operator applies it.
ToBoolean(v) ==
  CASE v.t = "undefined" -> FALSE
    [] v.t = "null" -> FALSE
    [] v.t = "bool" -> v.b
    [] v.t = "num" -> v.n # 0
    [] v.t = "str" -> v.s # ""
    [] OTHER -> TRUE

\* Whether a destructuring pattern { ... } = v can be evaluated at all.
ObjectCoercible(v) == v.t \notin {"undefined", "null"}

\* The value a destructuring pattern binds to key (v is object coercible).
\* Strings, numbers, booleans and arrays have no property of these names.
GetProperty(v, key) ==
  IF v.t = "obj" /\ key \in DOMAIN v.o THEN v.o[key] ELSE JUndefined

(***************************************************************************)
(* Handler outcomes.                                                       *)
(***************************************************************************)
STATUS_OK == 200
STATUS_BAD_REQUEST == 400

\* NextResponse.json(body, { status })
NextResponseJson(body, status) ==
  [kind |-> "response", status |-> status, body |-> body]

\* An exception that leaves the handler.
Throw(error) == [kind |-> "throw", error |-> error]

Pending == [kind |-> "pending"]

\* route handler 1, from the point where req.json() has settled as p.
POST(p) ==
  LET v == IF p.settled = "rejected" THEN EmptyObject ELSE p.value IN
  IF ~ObjectCoercible(v)
  THEN Throw("TypeError")
  ELSE LET name == GetProperty(v, "name")
           email == GetProperty(v, "email")
           message == GetProperty(v, "message")
       IN IF ~ToBoolean(name) \/ ~ToBoolean(email) \/ ~ToBoolean(message)
          THEN NextResponseJson([ok |-> FALSE, error |-> "Missing fields"],
                                STATUS_BAD_REQUEST)
          ELSE NextResponseJson([ok |-> TRUE], STATUS_OK)

\* POST_js gone wrong: the request is refused only when all three fields
\* are missing.
POST_jsAllMissing(p) ==
  IF p.settled = "rejected"
  THEN Throw(p.reason)
  ELSE LET v == p.value IN
       IF ~ObjectCoercible(v)
       THEN Throw("TypeError")
       ELSE LET name == GetProperty(v, "name")
                email == GetProperty(v, "email")
                message == GetProperty(v, "message")
            IN IF ~ToBoolean(name) /\ ~ToBoolean(email) /\ ~ToBoolean(message)
               THEN NextResponseJson([ok |-> FALSE], STATUS_BAD_REQUEST)
               ELSE NextResponseJson([ok |-> TRUE], STATUS_OK)

\* route handler 2, from the point where req.json() has settled as p: the
\* rejection is not caught, and the rejection body has no error property.
POST_js(p) ==
  IF p.settled = "rejected"
  THEN Throw(p.reason)
  ELSE LET v == p.value IN
       IF ~ObjectCoercible(v)
       THEN Throw("TypeError")
       ELSE LET name == GetProperty(v, "name")
                email == GetProperty(v, "email")
                message == GetProperty(v, "message")
            IN IF ~ToBoolean(name) \/ ~ToBoolean(email) \/ ~ToBoolean(message)
               THEN NextResponseJson([ok |-> FALSE], STATUS_BAD_REQUEST)
               ELSE NextResponseJson([ok |-> TRUE], STATUS_OK)

(***************************************************************************)
(* Request bodies.                                                         *)
(***************************************************************************)
\* Values a property of the request record may hold.
FieldValues ==
  { JNull, JBool(FALSE), JBool(TRUE), JNum(0), JNum(1),
    JStr(""), JStr("Ada"), JStr("0"), JArr(<< >>), EmptyObject }

\* Records over name, email, message; JUndefined stands for an absent key.
Records ==
  { JObj([name |-> a, email |-> b, message |-> c]) :
      a \in FieldValues \cup {JUndefined},
      b \in FieldValues \cup {JUndefined},
      c \in FieldValues \cup {JUndefined} }

\* JSON values that are no record, and records with a further property.
OtherValues ==
  { JNull, JBool(TRUE), JBool(FALSE), JNum(0), JNum(1), JStr(""), JStr("Ada"),
    JArr(<< >>), JArr(<<JStr("Ada"), JNum(1)>>),
    JObj([phone |-> JStr("555")]),
    JObj([name |-> JStr("Ada"), email |-> JStr("ada@example.com"),
          message |-> JStr("Hello"), phone |-> JNull]) }

\* Well-formed texts JSON.stringify does not produce: keys in another
\* order, a repeated key, a negative zero.
OtherTexts ==
  { <<LBRACE, TStr("message"), COLON, TStr("Hello"), COMMA,
      TStr("email"), COLON, TStr("ada@example.com"), COMMA,
      TStr("name"), COLON, TStr("Ada"), RBRACE>>,
    <<LBRACE, TStr("name"), COLON, TStr("Ada"), COMMA,
      TStr("email"), COLON, TStr("ada@example.com"), COMMA,
      TStr("message"), COLON, TStr("Hello"), COMMA,
      TStr("name"), COLON, TStr(""), RBRACE>>,
    <<LBRACE, TStr("name"), COLON, TStr(""), COMMA,
      TStr("email"), COLON, TStr("ada@example.com"), COMMA,
      TStr("message"), COLON, TStr("Hello"), COMMA,
      TStr("name"), COLON, TStr("Ada"), RBRACE>>,
    <<LBRACE, TStr("name"), COLON, TNum("-0"), COMMA,
      TStr("email"), COLON, TStr("ada@example.com"), COMMA,
      TStr("message"), COLON, TStr("Hello"), RBRACE>> }

\* Texts that are not JSON.
Malformed ==
  { << >>,
    <<LBRACE>>,
    <<RBRACE>>,
    <<LBRACK, TNum("1")>>,
    <<TStr("Ada"), TStr("Ada")>>,
    <<LBRACE, TStr("name"), COLON>>,
    <<LBRACE, TStr("name"), TStr("Ada"), RBRACE>>,
    <<LBRACE, TNum("1"), COLON, TStr("Ada"), RBRACE>>,
    <<LBRACE, TStr("name"), COLON, TStr("Ada"), COMMA, RBRACE>>,
    <<LBRACE, TStr("name"), COLON, TStr("Ada"), COMMA,
      TStr("email"), COLON, TStr("ada@example.com"), COMMA,
      TStr("message"), COLON, TStr("Hello")>>,
    <<LBRACE, TStr("name"), COLON, TStr("Ada"), COMMA,
      TStr("email"), COLON, TStr("ada@example.com"), COMMA,
      TStr("message"), COLON, TStr("Hello"), RBRACE, RBRACE>> }

AllBodies ==
  { Stringify(v) : v \in Records \cup OtherValues } \cup OtherTexts \cup Malformed

\* Bodies of requests that are in progress together: a valid submission,
\* one with an empty field, the empty record, JSON null and a text that is
\* not JSON.
ConcurrentBodies ==
  { Stringify(JObj([name |-> JStr("Ada"), email |-> JStr("ada@example.com"),
                    message |-> JStr("Hello")])),
    Stringify(JObj([name |-> JStr("Ada"), email |-> JStr(""),
                    message |-> JStr("Hello")])),
    Stringify(EmptyObject),
    Stringify(JNull),
    <<LBRACE, TStr("name"), COLON>> }

\* What a user can have typed into a field.
FormStrings == {"", "Ada"}

(***************************************************************************)
(* Bounds.                                                                 *)
(***************************************************************************)
MaxInvocations == 3
MaxSubmissions == 2
MaxToggles == 3

(***************************************************************************)
(* State.                                                                  *)
(***************************************************************************)
VARIABLES
  route,   \* which route handler the deployment serves: "ts" or "js"
  inv,     \* the invocations of the handler, in order of arrival
  sent,    \* what has been handed to a downstream provider (mail, storage)
  fields,  \* the contact form's current field values
  status,  \* Contact's status state
  subs,    \* the calls of handleSubmit, in order
  posts,   \* the requests the page has issued with fetch, in order
  open,    \* Navbar's open state: whether the mobile menu is shown
  active,  \* Projects' active category
  filtered, \* Projects' memoised list of the projects to display
  toggles, \* history: clicks on the menu button since the page was loaded
           \* or, if later, since the last click on a menu link
  clicked  \* history: the category button clicked last, "none" before any

vars ==
  <<route, inv, sent, fields, status, subs, posts, open, active, filtered,
    toggles, clicked>>

Routes == {"ts", "js"}

\* An invocation: its request body, where it stands, the state of the
\* promise req.json() returned, and its outcome.
NewInvocation(raw) ==
  [req |-> raw, pc |-> "reading", json |-> [settled |-> "pending"],
   out |-> Pending]

ClearedForm == [name |-> "", email |-> "", message |-> ""]

IdleStatus == [type |-> "idle"]
OkStatus == [type |-> "ok", message |-> "Thanks! I'll get back to you soon."]
ErrorStatus ==
  [type |-> "error", message |-> "Something went wrong. Email me directly instead."]

\* Projects' list of projects: title and category of each, in order.
all ==
  << [title |-> "Roomer", cat |-> "Web"],
     [title |-> "TradeOps", cat |-> "Data"],
     [title |-> "GridPro", cat |-> "Web"],
     [title |-> "Infra Pipelines", cat |-> "Infra"] >>

categories == <<"All", "Web", "Data", "Infra">>

\* The deployment is running and the page has just been rendered.
Init ==
  /\ route \in Routes
  /\ inv = << >>
  /\ sent = << >>
  /\ fields = ClearedForm
  /\ status = IdleStatus
  /\ subs = << >>
  /\ posts = << >>
  /\ open = FALSE
  /\ active = "All"
  /\ filtered = all
  /\ toggles = 0
  /\ clicked = "none"

\* The page has been rendered and a user has typed into the form.
InitPage ==
  /\ route \in Routes
  /\ inv = << >>
  /\ sent = << >>
  /\ fields \in [{"name", "email", "message"} -> FormStrings]
  /\ status = IdleStatus
  /\ subs = << >>
  /\ posts = << >>
  /\ open = FALSE
  /\ active = "All"
  /\ filtered = all
  /\ toggles = 0
  /\ clicked = "none"

\* The handler alone, on every body: one invocation, just called.
InitHandler ==
  /\ route \in Routes
  /\ \E raw \in AllBodies : inv = <<NewInvocation(raw)>>
  /\ sent = << >>
  /\ fields = ClearedForm
  /\ status = IdleStatus
  /\ subs = << >>
  /\ posts = << >>
  /\ open = FALSE
  /\ active = "All"
  /\ filtered = all
  /\ toggles = 0
  /\ clicked = "none"

(***************************************************************************)
(* The endpoint.                                                           *)
(***************************************************************************)
\* A request with body raw arrives: the handler is called and suspends on
\* await req.json().
Call(raw) ==
  /\ Len(inv) < MaxInvocations
  /\ inv' = Append(inv, NewInvocation(raw))
  /\ UNCHANGED <<toggles, clicked, route, sent, fields, status, subs, open, active, filtered, posts>>

\* The body of invocation i has been read: the promise of req.json() settles.
ReqJsonSettle(i) ==
  /\ inv[i].pc = "reading"
  /\ inv' = [inv EXCEPT ![i].pc = "parsed", ![i].json = ReqJson(inv[i].req)]
  /\ UNCHANGED <<toggles, clicked, route, sent, fields, status, subs, open, active, filtered, posts>>

\* ResumePOST gone wrong: a body already answered is refused as a duplicate.
ResumePOSTDedup(i) ==
  /\ route = "ts"
  /\ inv[i].pc = "parsed"
  /\ inv' = [inv EXCEPT
       ![i].pc = "done",
       ![i].out = IF \E j \in DOMAIN inv : j # i /\ inv[j].pc = "done"
                                           /\ inv[j].req = inv[i].req
                  THEN NextResponseJson([ok |-> FALSE, error |-> "Duplicate"], 409)
                  ELSE POST(inv[i].json)]
  /\ UNCHANGED <<toggles, clicked, route, sent, fields, status, subs, open, active, filtered, posts>>

\* ResumePOST gone wrong: the parsed body is kept in a variable of the
\* module, which the latest request to be parsed overwrites.
ResumePOSTShared(i) ==
  /\ route = "ts"
  /\ inv[i].pc = "parsed"
  /\ LET parsed == {j \in DOMAIN inv : inv[j].pc = "parsed"}
         latest == CHOOSE j \in parsed : \A k \in parsed : k <= j
     IN inv' = [inv EXCEPT ![i].pc = "done", ![i].out = POST(inv[latest].json)]
  /\ UNCHANGED <<toggles, clicked, route, sent, fields, status, subs, open, active, filtered, posts>>

\* ResumePOST gone wrong: an accepted submission is handed to a mail provider.
ResumePOSTSend(i) ==
  /\ route = "ts"
  /\ inv[i].pc = "parsed"
  /\ inv' = [inv EXCEPT ![i].pc = "done", ![i].out = POST(inv[i].json)]
  /\ sent' = IF POST(inv[i].json) = NextResponseJson([ok |-> TRUE], STATUS_OK)
           THEN Append(sent, inv[i].req)
           ELSE sent
  /\ UNCHANGED <<toggles, clicked, route, fields, status, subs, open, active, filtered, posts>>

\* Handler 1 resumes after the await and runs to its return.
ResumePOST(i) ==
  /\ route = "ts"
  /\ inv[i].pc = "parsed"
  /\ inv' = [inv EXCEPT ![i].pc = "done", ![i].out = POST(inv[i].json)]
  /\ UNCHANGED <<toggles, clicked, route, sent, fields, status, subs, open, active, filtered, posts>>

\* Handler 2 resumes after the await and runs to its return.
ResumePOST_js(i) ==
  /\ route = "js"
  /\ inv[i].pc = "parsed"
  /\ inv' = [inv EXCEPT ![i].pc = "done", ![i].out = POST_js(inv[i].json)]
  /\ UNCHANGED <<toggles, clicked, route, sent, fields, status, subs, open, active, filtered, posts>>

(***************************************************************************)
(* The contact form.                                                       *)
(***************************************************************************)
\* Response.ok of fetch: the status is in the range 200-299.
ResOk(res) == res.status >= 200 /\ res.status <= 299

\* Statuses with which something between the browser and the handler
\* (the platform, a proxy) may answer instead of the handler.
GatewayStatuses == {503}

\* The response the platform sends for a handler outcome: the handler's
\* own response, or 500 when an exception left the handler.
ResponseOf(out) ==
  IF out.kind = "response"
  THEN [status |-> out.status, body |-> out.body]
  ELSE [status |-> 500, body |-> [error |-> "Internal Server Error"]]

\* e.currentTarget as handleSubmit reads it after the await.  An event's
\* currentTarget is set only while the event is being dispatched to the
\* listener; the dispatch is over once handleSubmit has suspended on the
\* await, and from then on the property reads null.
CurrentTargetAfterAwait == "null"

\* A user types v into field k.
Edit(k, v) ==
  /\ fields[k] # v
  /\ fields' = [fields EXCEPT ![k] = v]
  /\ UNCHANGED <<toggles, clicked, route, inv, sent, status, subs, open, active, filtered, posts>>

\* handleSubmit gone wrong: the email property is read from the name field.
handleSubmitSwapped ==
  /\ Len(subs) < MaxSubmissions
  /\ LET data == fields
         body == Stringify(JObj([name |-> JStr(data.name),
                                 email |-> JStr(data.name),
                                 message |-> JStr(data.message)]))
     IN /\ subs' = Append(subs, [pc |-> "fetch", data |-> data, body |-> body,
                                 res |-> [settled |-> "pending"],
                                 sets |-> << >>, reset |-> FALSE])
        /\ posts' = Append(posts, [sub |-> Len(subs) + 1, url |-> "/api/contact",
                                   method |-> "POST", body |-> body])
  /\ UNCHANGED <<toggles, clicked, route, inv, sent, fields, status, open, active, filtered>>

\* handleSubmit gone wrong: while the request is in flight the status says
\* so.
handleSubmitPending ==
  /\ Len(subs) < MaxSubmissions
  /\ LET data == fields
         body == Stringify(JObj([name |-> JStr(data.name),
                                 email |-> JStr(data.email),
                                 message |-> JStr(data.message)]))
     IN /\ subs' = Append(subs, [pc |-> "fetch", data |-> data, body |-> body,
                                 res |-> [settled |-> "pending"],
                                 sets |-> << >>, reset |-> FALSE])
        /\ posts' = Append(posts, [sub |-> Len(subs) + 1, url |-> "/api/contact",
                                   method |-> "POST", body |-> body])
  /\ status' = [type |-> "pending"]
  /\ UNCHANGED <<toggles, clicked, route, inv, sent, fields, open, active, filtered>>

\* handleSubmit gone wrong: a new submission first takes the message of the
\* previous one off the display.
handleSubmitClearsStatus ==
  /\ Len(subs) < MaxSubmissions
  /\ LET data == fields
         body == Stringify(JObj([name |-> JStr(data.name),
                                 email |-> JStr(data.email),
                                 message |-> JStr(data.message)]))
     IN /\ subs' = Append(subs, [pc |-> "fetch", data |-> data, body |-> body,
                                 res |-> [settled |-> "pending"],
                                 sets |-> << >>, reset |-> FALSE])
        /\ posts' = Append(posts, [sub |-> Len(subs) + 1, url |-> "/api/contact",
                                   method |-> "POST", body |-> body])
  /\ status' = IdleStatus
  /\ UNCHANGED <<toggles, clicked, route, inv, sent, fields, open, active, filtered>>

\* handleSubmit up to its await: the field values are captured in a
\* FormData, serialised, and the POST is issued.
handleSubmit ==
  /\ Len(subs) < MaxSubmissions
  /\ LET data == fields
         body == Stringify(JObj([name |-> JStr(data.name),
                                 email |-> JStr(data.email),
                                 message |-> JStr(data.message)]))
     IN /\ subs' = Append(subs, [pc |-> "fetch", data |-> data, body |-> body,
                                 res |-> [settled |-> "pending"],
                                 sets |-> << >>, reset |-> FALSE])
        /\ posts' = Append(posts, [sub |-> Len(subs) + 1, url |-> "/api/contact",
                                   method |-> "POST", body |-> body])
  /\ UNCHANGED <<toggles, clicked, route, inv, sent, fields, status, open, active, filtered>>

\* AfterFetch gone wrong: the error of the response body is shown.
AfterFetchDetail(awaited) ==
  IF awaited.settled = "rejected"
  THEN [sets |-> <<ErrorStatus>>, reset |-> FALSE]
  ELSE IF ~ResOk(awaited.value)
       THEN [sets |-> <<[type |-> "error",
                         message |-> IF "error" \in DOMAIN awaited.value.body
                                     THEN awaited.value.body.error
                                     ELSE ErrorStatus.message]>>,
             reset |-> FALSE]
       ELSE IF CurrentTargetAfterAwait = "null"
            THEN [sets |-> <<OkStatus, ErrorStatus>>, reset |-> FALSE]
            ELSE [sets |-> <<OkStatus>>, reset |-> TRUE]

\* AfterFetch gone wrong: the form is reset in a finally clause, whatever
\* the outcome.
AfterFetchResetAlways(awaited) ==
  IF awaited.settled = "rejected"
  THEN [sets |-> <<ErrorStatus>>, reset |-> TRUE]
  ELSE IF ~ResOk(awaited.value)
       THEN [sets |-> <<ErrorStatus>>, reset |-> TRUE]
       ELSE [sets |-> <<OkStatus>>, reset |-> TRUE]

\* AfterFetch gone wrong: a rejected fetch shows the message of its error.
AfterFetchRejectMessage(awaited) ==
  IF awaited.settled = "rejected"
  THEN [sets |-> <<[type |-> "error", message |-> "Failed to fetch"]>>,
        reset |-> FALSE]
  ELSE IF ~ResOk(awaited.value)
       THEN [sets |-> <<ErrorStatus>>, reset |-> FALSE]
       ELSE IF CurrentTargetAfterAwait = "null"
            THEN [sets |-> <<OkStatus, ErrorStatus>>, reset |-> FALSE]
            ELSE [sets |-> <<OkStatus>>, reset |-> TRUE]

\* handleSubmit from the await to its end, given how the fetch promise
\* settled: the setStatus calls it makes, in order, and whether it reset
\* the form.  A rejected fetch, a response that is not ok and a TypeError
\* on reading reset of null all end in the catch clause.
AfterFetch(awaited) ==
  IF awaited.settled = "rejected"
  THEN [sets |-> <<ErrorStatus>>, reset |-> FALSE]
  ELSE IF ~ResOk(awaited.value)
       THEN [sets |-> <<ErrorStatus>>, reset |-> FALSE]
       ELSE IF CurrentTargetAfterAwait = "null"
            THEN [sets |-> <<OkStatus, ErrorStatus>>, reset |-> FALSE]
            ELSE [sets |-> <<OkStatus>>, reset |-> TRUE]

\* Submission s resumes with the settled fetch promise and runs to its end.
\* Continue gone wrong: the response is taken but handleSubmit stays at its
\* await and sets no status.
ContinueNoSettle(s, awaited) ==
  /\ subs[s].pc = "fetch"
  /\ subs' = [subs EXCEPT ![s].res = awaited]
  /\ UNCHANGED <<toggles, clicked, route, inv, sent, fields, status, posts, open, active, filtered>>

Continue(s, awaited) ==
  /\ subs[s].pc = "fetch"
  /\ LET r == AfterFetch(awaited) IN
     /\ subs' = [subs EXCEPT ![s].pc = "done", ![s].res = awaited,
                             ![s].sets = r.sets, ![s].reset = r.reset]
     /\ status' = r.sets[Len(r.sets)]
     /\ fields' = IF r.reset THEN ClearedForm ELSE fields
  /\ UNCHANGED <<toggles, clicked, route, inv, sent, open, active, filtered, posts>>

\* The deployed handler run on raw from its call to its return.
Serve(raw) == IF route = "ts" THEN POST(ReqJson(raw)) ELSE POST_js(ReqJson(raw))

\* The request of submission s is served and the endpoint's answer arrives.
FetchResolve(s) ==
  Continue(s, [settled |-> "fulfilled", value |-> ResponseOf(Serve(subs[s].body))])

\* Something on the way answers submission s with status st.
FetchResolveGateway(s, st) ==
  Continue(s, [settled |-> "fulfilled",
               value |-> [status |-> st, body |-> [error |-> "Gateway"]]])

\* The request of submission s fails without a response.
FetchReject(s) ==
  Continue(s, [settled |-> "rejected", reason |-> "TypeError"])

(***************************************************************************)
(* The navigation bar and the project gallery.                             *)
(***************************************************************************)
\* The menu button is clicked: setOpen(!open).
\* ToggleMenu gone wrong: the button only opens the menu, setOpen(true).
ToggleMenuOpens ==
  /\ toggles < MaxToggles
  /\ open' = TRUE
  /\ toggles' = toggles + 1
  /\ UNCHANGED <<clicked, route, inv, sent, fields, status, subs, posts, active, filtered>>

ToggleMenu ==
  /\ toggles < MaxToggles
  /\ open' = ~open
  /\ toggles' = toggles + 1
  /\ UNCHANGED <<clicked, route, inv, sent, fields, status, subs, posts, active, filtered>>

\* MenuLinkClick gone wrong: following a link also resets the gallery.
MenuLinkClickResetsGallery ==
  /\ open
  /\ open' = FALSE
  /\ toggles' = 0
  /\ active' = "All"
  /\ filtered' = all
  /\ UNCHANGED <<clicked, route, inv, sent, fields, status, subs, posts>>

\* A link of the mobile menu, rendered only while open, is clicked:
\* setOpen(false).
MenuLinkClick ==
  /\ open
  /\ open' = FALSE
  /\ toggles' = 0
  /\ UNCHANGED <<clicked, route, inv, sent, fields, status, subs, posts, active, filtered>>

\* The projects the memo computes for category c.
Filter(c) ==
  IF c = "All" THEN all ELSE SelectSeq(all, LAMBDA p : p.cat = c)

\* Whether the button of category c is rendered as pressed: aria-pressed.
Pressed(c) == active = c

\* setActive gone wrong: a click on the pressed button releases it.
setActiveRelease(c) ==
  /\ active' = IF active = c THEN "" ELSE c
  /\ filtered' = IF active = c THEN << >> ELSE Filter(c)
  /\ clicked' = c
  /\ UNCHANGED <<toggles, route, inv, sent, fields, status, subs, posts, open>>

\* setActive gone wrong: the memo does not depend on active and keeps the
\* list it computed first.
setActiveStaleMemo(c) ==
  /\ active' = c
  /\ clicked' = c
  /\ UNCHANGED <<toggles, route, inv, sent, fields, status, subs, posts, open, filtered>>

\* The button of category c is clicked: setActive(c); on the render that
\* follows the memo, which depends on active, is computed again.
setActive(c) ==
  /\ active' = c
  /\ filtered' = Filter(c)
  /\ clicked' = c
  /\ UNCHANGED <<toggles, route, inv, sent, fields, status, subs, posts, open>>

(***************************************************************************)
(* Specifications.                                                         *)
(***************************************************************************)
\* The page and the endpoint behind it.
Next ==
  \/ \E k \in DOMAIN fields, v \in FormStrings : Edit(k, v)
  \/ handleSubmit
  \/ \E s \in DOMAIN subs : FetchResolve(s)
  \/ \E s \in DOMAIN subs, st \in GatewayStatuses : FetchResolveGateway(s, st)
  \/ \E s \in DOMAIN subs : FetchReject(s)

Spec == Init /\ [][Next]_vars

\* The whole page: menu, gallery and contact form, the form as typed.
NextPage ==
  \/ ToggleMenu
  \/ MenuLinkClick
  \/ \E n \in DOMAIN categories : setActive(categories[n])
  \/ handleSubmit
  \/ \E s \in DOMAIN subs : FetchResolve(s)
  \/ \E s \in DOMAIN subs, st \in GatewayStatuses : FetchResolveGateway(s, st)
  \/ \E s \in DOMAIN subs : FetchReject(s)

SpecPage == InitPage /\ [][NextPage]_vars

\* The fetch promise of submission s settles, one way or another.
FetchSettle(s) ==
  /\ s \in DOMAIN subs
  /\ \/ FetchReject(s)
     \/ \E st \in GatewayStatuses : FetchResolveGateway(s, st)
     \/ FetchResolve(s)

\* The contact form alone, with every fetch promise settling in the end: a
\* settled promise queues the continuation of handleSubmit, and the event
\* loop runs every queued continuation.
NextContact ==
  \/ handleSubmit
  \/ \E s \in DOMAIN subs : FetchResolve(s)
  \/ \E s \in DOMAIN subs, st \in GatewayStatuses : FetchResolveGateway(s, st)
  \/ \E s \in DOMAIN subs : FetchReject(s)

SpecContactLive ==
  /\ InitPage
  /\ [][NextContact]_vars
  /\ \A s \in 1..MaxSubmissions : WF_vars(FetchSettle(s))

\* The endpoint under requests that overlap.
NextServer ==
  \/ \E raw \in ConcurrentBodies : Call(raw)
  \/ \E i \in DOMAIN inv : ReqJsonSettle(i)
  \/ \E i \in DOMAIN inv : ResumePOST(i)
  \/ \E i \in DOMAIN inv : ResumePOST_js(i)

SpecServer == Init /\ [][NextServer]_vars

\* The endpoint on one request, over every body.
NextHandler ==
  \/ \E i \in DOMAIN inv : ReqJsonSettle(i)
  \/ \E i \in DOMAIN inv : ResumePOST(i)
  \/ \E i \in DOMAIN inv : ResumePOST_js(i)

SpecHandler == InitHandler /\ [][NextHandler]_vars

(***************************************************************************)
(* Vocabulary of the properties.                                           *)
(***************************************************************************)
Done(i) == inv[i].pc = "done"

\* The body parses, and to a record.
ParsesToRecord(raw) ==
  LET p == ReqJson(raw) IN p.settled = "fulfilled" /\ p.value.t = "obj"

Unparseable(raw) == ReqJson(raw).settled = "rejected"

\* The value of a key of the record raw parses to; JUndefined when absent.
FieldOf(raw, key) ==
  LET o == ReqJson(raw).value.o IN IF key \in DOMAIN o THEN o[key] ELSE JUndefined

RequiredKeys == {"name", "email", "message"}

NonEmptyString(v) == v.t = "str" /\ v.s # ""

\* Absent, the empty string, null or undefined.
Missing(v) == v \in {JUndefined, JNull, JStr("")}

\* "", null, undefined, 0 or false.
Falsy(v) == v \in {JUndefined, JNull, JStr(""), JNum(0), JBool(FALSE)}

Success == [kind |-> "response", status |-> 200, body |-> [ok |-> TRUE]]
MissingFields ==
  [kind |-> "response", status |-> 400,
   body |-> [ok |-> FALSE, error |-> "Missing fields"]]

(***************************************************************************)
(* Properties of the endpoint.                                             *)
(***************************************************************************)
\* C1: an invocation whose body parses to a record with name, email and
\* message each a non-empty string ends with status 200 and body {ok: true}.
C1_ValidSubmissionSucceeds ==
  \A i \in DOMAIN inv :
    ( /\ Done(i)
      /\ ParsesToRecord(inv[i].req)
      /\ \A k \in RequiredKeys : NonEmptyString(FieldOf(inv[i].req, k)) )
    => inv[i].out = Success

\* C1 witness: a finished invocation whose three fields are non-empty
\* strings, one of them the string "0", answered with success.
C1_Witness ==
  \E i \in DOMAIN inv :
    /\ Done(i)
    /\ ParsesToRecord(inv[i].req)
    /\ \A k \in RequiredKeys : NonEmptyString(FieldOf(inv[i].req, k))
    /\ FieldOf(inv[i].req, "email") = JStr("0")
    /\ inv[i].out = Success

\* C2: an invocation whose body is a record in which name, email or message
\* is absent, the empty string or null ends with status 400 and body
\* {ok: false, error: "Missing fields"}.
C2_MissingFieldRejected ==
  \A i \in DOMAIN inv :
    ( /\ Done(i)
      /\ ParsesToRecord(inv[i].req)
      /\ \E k \in RequiredKeys : Missing(FieldOf(inv[i].req, k)) )
    => inv[i].out = MissingFields

\* C3: an invocation whose body cannot be parsed ends as the empty record
\* does, with status 400 and body {ok: false, error: "Missing fields"}, and
\* no exception leaves the handler.
C3_UnparseableAsEmptyRecord ==
  \A i \in DOMAIN inv :
    (Done(i) /\ Unparseable(inv[i].req))
    => /\ inv[i].out.kind # "throw"
       /\ inv[i].out = MissingFields

\* C4: an invocation whose body parses to a record is accepted exactly when
\* none of name, email, message is absent, "", null, 0 or false, whatever
\* else the values are; otherwise it is rejected with status 400.
C4_AcceptedIffAllTruthy ==
  \A i \in DOMAIN inv :
    (Done(i) /\ ParsesToRecord(inv[i].req))
    => LET allPresent == \A k \in RequiredKeys : ~Falsy(FieldOf(inv[i].req, k)) IN
       /\ inv[i].out.kind = "response"
       /\ allPresent => inv[i].out.status = 200
       /\ ~allPresent => inv[i].out.status = 400

\* C4 witness: a record with an empty array, an empty object and the
\* number 1 as its fields has been accepted by handler 1.
C4_Witness ==
  \E i \in DOMAIN inv :
    /\ route = "ts"
    /\ Done(i)
    /\ ParsesToRecord(inv[i].req)
    /\ FieldOf(inv[i].req, "name") = JArr(<< >>)
    /\ FieldOf(inv[i].req, "email") = EmptyObject
    /\ FieldOf(inv[i].req, "message") = JNum(1)
    /\ inv[i].out.status = 200

\* C5: every finished invocation ended with (200, {ok: true}) or with
\* (400, {ok: false, error: "Missing fields"}).
C5_TwoOutcomes ==
  \A i \in DOMAIN inv : Done(i) => inv[i].out \in {Success, MissingFields}

\* A valid submission, as a request body.
ValidBody ==
  Stringify(JObj([name |-> JStr("Ada"), email |-> JStr("ada@example.com"),
                  message |-> JStr("Hello")]))

\* C6: two finished invocations with the same body have the same response,
\* and a valid body is answered with success whatever invocations came
\* before it or run beside it.
C6_ResponseFunctionOfBody ==
  \A i \in DOMAIN inv :
    Done(i) =>
      /\ inv[i].req = ValidBody => inv[i].out = Success
      /\ \A j \in DOMAIN inv :
           (Done(j) /\ inv[j].req = inv[i].req) => inv[j].out = inv[i].out

\* C6 witness: the same valid body was submitted twice and both
\* invocations have finished with success.
C6_Witness ==
  /\ Len(inv) >= 2
  /\ inv[1].req = ValidBody /\ inv[2].req = ValidBody
  /\ Done(1) /\ Done(2)
  /\ inv[1].out = Success /\ inv[2].out = Success

\* C7: however invocations interleave, a finished invocation has the
\* outcome the handler gives its body when run alone from call to return.
C7_SameAsAlone ==
  \A i \in DOMAIN inv : Done(i) => inv[i].out = Serve(inv[i].req)

\* C7 witness: the second invocation has finished, rejected, while the
\* first, called before it with a valid body, is still between its await
\* and its return.
C7_Witness ==
  /\ Len(inv) >= 2
  /\ inv[1].req = ValidBody /\ inv[1].pc = "parsed"
  /\ Done(2) /\ inv[2].out.kind = "response" /\ inv[2].out.status = 400

\* C8: no step of the endpoint hands anything to a downstream provider or
\* changes the deployment, and a step changes the record of at most one
\* invocation.
C8_NoSideEffects ==
  [][ /\ sent' = sent
      /\ route' = route
      /\ \A i \in DOMAIN inv :
           inv'[i] # inv[i] => \A j \in DOMAIN inv \ {i} : inv'[j] = inv[j] ]_vars

\* C8 witness: an accepted and a rejected invocation have both finished
\* and nothing has been handed downstream.
C8_Witness ==
  /\ \E i \in DOMAIN inv : Done(i) /\ inv[i].out = Success
  /\ \E i \in DOMAIN inv : Done(i) /\ inv[i].out.kind = "response"
                                   /\ inv[i].out.status = 400
  /\ sent = << >>

(***************************************************************************)
(* Properties of the contact form.                                         *)
(***************************************************************************)
Settled(s) == subs[s].pc = "done"

\* C9: a submission whose request got a 2xx response has cleared the form,
\* set the status last to "ok" with the acknowledgement, and never set it
\* to "error".
C9_SuccessAcknowledged ==
  \A s \in DOMAIN subs :
    ( /\ Settled(s)
      /\ subs[s].res.settled = "fulfilled"
      /\ subs[s].res.value.status \in 200..299 )
    => /\ subs[s].reset
       /\ subs[s].sets # << >>
       /\ subs[s].sets[Len(subs[s].sets)] =
            [type |-> "ok", message |-> "Thanks! I'll get back to you soon."]
       /\ \A n \in DOMAIN subs[s].sets : subs[s].sets[n].type # "error"

\* C10: the step in which a submission receives a response outside 200-299
\* leaves the status at "error" with the fixed fallback message, and that
\* is the only status the submission sets.
C10_NonSuccessShowsFallback ==
  [][ \A s \in DOMAIN subs :
        ( /\ subs[s].pc = "fetch"
          /\ subs'[s].pc = "done"
          /\ subs'[s].res.settled = "fulfilled"
          /\ subs'[s].res.value.status \notin 200..299 )
        => /\ status' = [type |-> "error",
                         message |-> "Something went wrong. Email me directly instead."]
           /\ subs'[s].sets = <<status'>> ]_vars

\* C10 witness: a submission with an empty field was answered 400 by the
\* endpoint and the fallback message is displayed.
C10_Witness ==
  \E s \in DOMAIN subs :
    /\ Settled(s)
    /\ subs[s].data.email = ""
    /\ subs[s].res.settled = "fulfilled"
    /\ subs[s].res.value.status = 400
    /\ status.type = "error"
    /\ status.message = "Something went wrong. Email me directly instead."

\* C11: the status, and every value a submission has set it to, is idle
\* without a message, "ok" with the acknowledgement, or "error" with the
\* fallback message.
C11_StatusOneOfThree ==
  LET Allowed ==
        { [type |-> "idle"],
          [type |-> "ok", message |-> "Thanks! I'll get back to you soon."],
          [type |-> "error",
           message |-> "Something went wrong. Email me directly instead."] }
  IN /\ status \in Allowed
     /\ \A s \in DOMAIN subs :
          \A n \in DOMAIN subs[s].sets : subs[s].sets[n] \in Allowed

\* C11 witness: a submission answered 400 with a body that carries an
\* error text has settled, and another has set both "ok" and "error".
C11_Witness ==
  /\ \E s \in DOMAIN subs :
       /\ Settled(s)
       /\ subs[s].res.settled = "fulfilled"
       /\ subs[s].res.value.status = 400
       /\ "error" \in DOMAIN subs[s].res.value.body
  /\ \E s \in DOMAIN subs : Len(subs[s].sets) = 2
  /\ status.type = "error"

\* C12: a step that starts a submission issues one POST to /api/contact
\* whose body parses to the name, email and message the fields hold at that
\* step; no other step issues a request, and no step changes a request
\* already issued.
C12_OnePostOfCapturedFields ==
  [][ /\ Len(posts') >= Len(posts)
      /\ \A p \in DOMAIN posts : posts'[p] = posts[p]
      /\ IF Len(subs') = Len(subs) + 1
         THEN /\ Len(posts') = Len(posts) + 1
              /\ LET q == posts'[Len(posts')] IN
                 /\ q.sub = Len(subs')
                 /\ q.url = "/api/contact"
                 /\ q.method = "POST"
                 /\ ReqJson(q.body).settled = "fulfilled"
                 /\ ReqJson(q.body).value =
                      JObj([name |-> JStr(fields.name),
                            email |-> JStr(fields.email),
                            message |-> JStr(fields.message)])
         ELSE posts' = posts ]_vars

\* C12 witness: a request is in flight and every field has been edited
\* since it was sent; the one request of that submission still carries the
\* values captured at submit.
C12_Witness ==
  \E s \in DOMAIN subs :
    /\ subs[s].pc = "fetch"
    /\ subs[s].data = [name |-> "Ada", email |-> "Ada", message |-> "Ada"]
    /\ fields = [name |-> "", email |-> "", message |-> ""]
    /\ Cardinality({p \in DOMAIN posts : posts[p].sub = s}) = 1
    /\ \A p \in DOMAIN posts :
         posts[p].sub = s =>
           ReqJson(posts[p].body).value.o.email = JStr("Ada")

(***************************************************************************)
(* Properties of the page.                                                 *)
(***************************************************************************)
\* C13: a step that changes the menu flag leaves the active category, the
\* displayed projects and the form status unchanged; a step that changes
\* the active category leaves the menu flag and the form status unchanged;
\* a step of a form submission leaves the menu flag and the active
\* category unchanged.
C13_UiStateIndependent ==
  [][ /\ open' # open =>
           /\ active' = active /\ filtered' = filtered
           /\ status' = status /\ subs' = subs
      /\ active' # active =>
           /\ open' = open
           /\ status' = status /\ subs' = subs
      /\ (subs' # subs \/ status' # status) =>
           /\ open' = open
           /\ active' = active /\ filtered' = filtered ]_vars

\* C13 witness: the menu is open, a category other than "All" is active
\* and a submission has put a status on display.
C13_Witness ==
  /\ open
  /\ active = "Data"
  /\ status.type # "idle"
  /\ \E s \in DOMAIN subs : Settled(s)

\* C14: the displayed list is the whole project list when the active
\* category is "All"; otherwise it holds exactly the projects of the active
\* category, each once, in the order they have in the project list.
C14_DisplayedIsFilter ==
  IF active = "All"
  THEN filtered = all
  ELSE /\ \A n \in DOMAIN filtered :
            /\ filtered[n].cat = active
            /\ \E i \in DOMAIN all : all[i] = filtered[n]
       /\ \A i \in DOMAIN all :
            all[i].cat = active => \E n \in DOMAIN filtered : filtered[n] = all[i]
       /\ \A m, n \in DOMAIN filtered :
            m < n => \E i, j \in DOMAIN all :
                       i < j /\ all[i] = filtered[m] /\ all[j] = filtered[n]
       /\ \A m, n \in DOMAIN filtered : filtered[m] = filtered[n] => m = n

\* C14 witness: "Web" is active and its two projects, which are not
\* neighbours in the project list, are displayed in their order.
C14_Witness ==
  /\ active = "Web"
  /\ Len(filtered) = 2
  /\ filtered[1].title = "Roomer"
  /\ filtered[2].title = "GridPro"

(***************************************************************************)
(* Further properties of the endpoint.                                     *)
(***************************************************************************)
\* The body parses, and to a value that is no record: null, a boolean, a
\* number, a string or an array.
ParsesToNonRecord(raw) ==
  LET p == ReqJson(raw) IN p.settled = "fulfilled" /\ p.value.t # "obj"

\* C15: an invocation of handler 1 whose body parses to a value that is no
\* record ends with status 400 and body {ok: false, error: "Missing
\* fields"}, and throws nothing.
C15_NonRecordRejected ==
  \A i \in DOMAIN inv :
    (route = "ts" /\ Done(i) /\ ParsesToNonRecord(inv[i].req))
    => /\ inv[i].out.kind # "throw"
       /\ inv[i].out = MissingFields

\* What C15 does hold for: a body that parses to a boolean, a number, a
\* string or an array is rejected by handler 1 with the missing-fields
\* response.
NonNullNonRecordRejected ==
  \A i \in DOMAIN inv :
    ( /\ route = "ts" /\ Done(i) /\ ParsesToNonRecord(inv[i].req)
      /\ ReqJson(inv[i].req).value.t # "null" )
    => inv[i].out = MissingFields

\* C17: on a body that parses to a record the two handlers compute a
\* response with the same status, 200 when name, email and message are all
\* truthy and 400 otherwise, and the deployed one has returned it.
C17_HandlersAgreeOnRecords ==
  \A i \in DOMAIN inv :
    (Done(i) /\ ParsesToRecord(inv[i].req))
    => LET a == POST(inv[i].json)
           b == POST_js(inv[i].json)
           expected == IF \A k \in RequiredKeys : ~Falsy(FieldOf(inv[i].req, k))
                       THEN 200 ELSE 400
       IN /\ a.kind = "response" /\ b.kind = "response"
          /\ a.status = expected
          /\ b.status = expected
          /\ inv[i].out.status = expected

\* C17 witness: handler 2 has answered a record whose only falsy field is
\* the number 0 with status 400.
C17_Witness ==
  \E i \in DOMAIN inv :
    /\ route = "js"
    /\ Done(i)
    /\ ParsesToRecord(inv[i].req)
    /\ FieldOf(inv[i].req, "name") = JStr("Ada")
    /\ FieldOf(inv[i].req, "email") = JNum(0)
    /\ FieldOf(inv[i].req, "message") = JStr("Ada")
    /\ inv[i].out.status = 400
    /\ POST(inv[i].json).status = 400

(***************************************************************************)
(* Further properties of the contact form.                                 *)
(***************************************************************************)
\* The step in which submission s resumes from its await and ends.
Settles(s) == subs[s].pc = "fetch" /\ subs'[s].pc = "done"

\* C16: the step in which a submission receives a response outside 200-299,
\* or no response at all, leaves the field values as they are, and a
\* submission that has reset the form received a 2xx response.
C16_FailureKeepsFields ==
  [][ \A s \in DOMAIN subs :
        /\ ( /\ Settles(s)
             /\ \/ subs'[s].res.settled = "rejected"
                \/ subs'[s].res.value.status \notin 200..299 )
           => (fields' = fields /\ ~subs'[s].reset)
        /\ (Settles(s) /\ subs'[s].reset)
           => /\ subs'[s].res.settled = "fulfilled"
              /\ subs'[s].res.value.status \in 200..299 ]_vars

\* C16 witness: a submission of a filled form was answered 503, another
\* failed without a response, and the fields still hold what was typed.
C16_Witness ==
  /\ fields = [name |-> "Ada", email |-> "Ada", message |-> "Ada"]
  /\ \E s \in DOMAIN subs :
       /\ Settled(s) /\ subs[s].data = fields
       /\ subs[s].res.settled = "fulfilled" /\ subs[s].res.value.status = 503
  /\ \E s \in DOMAIN subs :
       /\ Settled(s) /\ subs[s].data = fields
       /\ subs[s].res.settled = "rejected"

\* C18: the step in which the fetch of a submission is rejected ends
\* handleSubmit, with the status at "error" with the fixed fallback
\* message, the only status that submission sets.
C18_RejectedFetchShowsFallback ==
  [][ \A s \in DOMAIN subs :
        ( /\ subs[s].pc = "fetch"
          /\ subs'[s].res.settled = "rejected" )
        => /\ subs'[s].pc = "done"
           /\ status' = [type |-> "error",
                         message |-> "Something went wrong. Email me directly instead."]
           /\ subs'[s].sets = <<status'>> ]_vars

\* C18 witness: a fetch was rejected while nothing was on display, and the
\* fallback message is displayed now.
C18_Witness ==
  /\ Len(subs) = 1
  /\ Settled(1)
  /\ subs[1].res.settled = "rejected"
  /\ status.type = "error"

\* C20: the status is idle exactly as long as no submission has settled.
C20_IdleUntilFirstSettle ==
  (status.type = "idle") <=> (\A s \in DOMAIN subs : ~Settled(s))

\* C20 witness: a submission has settled, another was started after that
\* and is in flight, and a status message is on display.
C20_Witness ==
  /\ Len(subs) = 2
  /\ Settled(1)
  /\ subs[2].pc = "fetch"
  /\ status.type # "idle"

\* C19: every submission, its fetch promise settling in the end, ends
\* handleSubmit having set the status to "ok" or to "error".
C19_EverySubmissionSettles ==
  \A s \in 1..MaxSubmissions :
    (s \in DOMAIN subs)
      ~> ( /\ s \in DOMAIN subs
           /\ subs[s].pc = "done"
           /\ Len(subs[s].sets) > 0
           /\ \A n \in DOMAIN subs[s].sets : subs[s].sets[n].type \in {"ok", "error"}
           /\ status.type \in {"ok", "error"} )

\* C19 witness: two submissions were made one after the other without
\* waiting, and both have ended, the first answered and the second not.
C19_Witness ==
  /\ Len(subs) = 2
  /\ subs[1].pc = "done" /\ subs[1].res.settled = "fulfilled"
  /\ subs[2].pc = "done" /\ subs[2].res.settled = "rejected"
  /\ Len(subs[1].sets) > 0 /\ Len(subs[2].sets) > 0

\* The outcome of a request, as the form is to display it: "ok" for a
\* response with a status in 200-299, "error" for any other response and
\* for no response.
OutcomeOf(res) ==
  IF res.settled = "fulfilled" /\ res.value.status \in 200..299
  THEN "ok"
  ELSE "error"

\* Submission s is in flight: handleSubmit is at its await.
InFlight(s) == subs[s].pc = "fetch"

\* C21: a step may start a submission while earlier ones are in flight, and
\* the step in which a submission settles, whether or not it was the last
\* one started, leaves the status at the outcome of that submission's
\* request.
C21_LastSettledWins ==
  [][ /\ (Len(subs') = Len(subs) + 1)
         => \A s \in DOMAIN subs : subs'[s] = subs[s]
      /\ \A s \in DOMAIN subs :
           Settles(s) => status'.type = OutcomeOf(subs'[s].res) ]_vars

\* The part of C21 about the order: the step in which a submission settles
\* leaves the status at the last value that submission set, whichever
\* submissions were started after it and whichever have settled before.
SettlingSubmissionSetsStatus ==
  [][ \A s \in DOMAIN subs :
        Settles(s) => /\ subs'[s].sets # << >>
                      /\ status' = subs'[s].sets[Len(subs'[s].sets)] ]_vars

\* Two submissions overlapped and the one started first settled last.
OverlapFirstSettlesLast ==
  /\ Len(subs) = 2
  /\ Settled(2)
  /\ InFlight(1)

\* C22: the status changes only in a step in which a submission settles; the
\* step that starts a submission, and every step while it is in flight
\* other than a settling, leaves the status as it is, and the status is
\* never a pending one.
C22_StatusKeptWhileInFlight ==
  [][ /\ (Len(subs') = Len(subs) + 1) => status' = status
      /\ (status' # status) => \E s \in DOMAIN subs : Settles(s)
      /\ status'.type \in {"idle", "ok", "error"} ]_vars

\* C22 witness: a submission failed without a response, the next one is in
\* flight, and the message of the first is still the one displayed.
C22_Witness ==
  /\ Len(subs) = 2
  /\ Settled(1) /\ subs[1].res.settled = "rejected"
  /\ InFlight(2)
  /\ status = subs[1].sets[Len(subs[1].sets)]

(***************************************************************************)
(* Properties of the navigation bar and of the project gallery.            *)
(***************************************************************************)
\* C23: the menu starts closed; it is open exactly when the menu button has
\* been clicked an odd number of times since the page was loaded or, if
\* later, since the last click on a menu link; and a step that is a click
\* on a menu link starts with the menu open and ends with it closed.
C23_MenuOpenIffOddToggles ==
  /\ ~open
  /\ [](open <=> toggles % 2 = 1)
  /\ [][ (toggles' # toggles /\ toggles' # toggles + 1)
         => (open /\ ~open' /\ toggles' = 0) ]_vars

\* C23 witness: the menu button has been clicked three times in a row and
\* the menu is open.
C23_Witness ==
  /\ toggles = 3
  /\ open

\* C24: the active category is one of the four, exactly one category button
\* is pressed, it is the button of "All" before any click and the button
\* clicked last after one.
C24_OnePressedButton ==
  /\ active \in {"All", "Web", "Data", "Infra"}
  /\ Cardinality({n \in DOMAIN categories : Pressed(categories[n])}) = 1
  /\ clicked = "none" => Pressed("All")
  /\ clicked # "none" => Pressed(clicked)

\* C24 witness: "Data" was clicked last; its button is the pressed one and
\* the button of "All" is not.
C24_Witness ==
  /\ clicked = "Data"
  /\ Pressed("Data")
  /\ ~Pressed("All")

====
